---- MODULE Spec2Model ----
(***************************************************************************)
(* A model of CDL.py (convolutional dictionary learning):                  *)
(*   - parallel_encoder: the split of the n columns into ranges, the two   *)
(*     multiprocessing queues, the worker processes and the collection of  *)
(*     the results by the parent;                                          *)
(*   - the ADMM loops of _encoder and dictionary: checkups, convergence    *)
(*     test, adaptive rho and the cached operator;                         *)
(*   - learn_dictionary: the outer alternation and the running statistics; *)
(*   - _encoder on numbers (fixed point), to compare the result of         *)
(*     parallel_encoder with one thread and with several;                  *)
(*   - the utility functions columns_to_diags, diags_to_columns,           *)
(*     columns_to_vector, vector_to_columns and real2_to_complex, the      *)
(*     projection proj_l2_ball and the regularizer reg_l1_space, each      *)
(*     called alone on small arrays.                                       *)
(***************************************************************************)
EXTENDS Integers, Sequences, FiniteSets, TLC

\* ------------------------------------------------------------------------
\* Bounds of the model
\* ------------------------------------------------------------------------
MaxN == 3
MaxThreads == 2
MaxSplitN == 9
MaxSplitThreads == 5
MaxIter == 11
MaxLongIter == 141
MaxM == 3
MaxD == 1
MaxSteps == 3
MaxColumns == 3
MaxEncoderIter == 7
MaxRows == 5
MaxCols == 2

MaxSignals == 2

MaxHalfRows == 2
MaxCodewords == 2

\* ------------------------------------------------------------------------
\* parallel_encoder
\* ------------------------------------------------------------------------
VARIABLES
    n,              \* X.shape[1], the number of signal columns
    n_threads,      \* the n_threads argument
    poison,         \* the columns on which the encoder task raises
    pc,             \* the parent: "call", "collect", "returned", "raised"
    A,              \* the activation matrix, column by column (0-based)
    input_buffer,   \* input_queue: items put and not yet fed to the pipe
    input_queue,    \* input_queue: items in the pipe, visible to empty()/get()
    output_queue,   \* output_queue: results the workers have put
    num_Q,          \* the number of results the parent still waits for
    diagnostics,    \* the diagnostics the parent has appended
    wpc,            \* per worker: "check", "get", "encode", "done", "timeout", "failed"
    wrange,         \* per worker: the range (i, j) it holds
    inline_runs,    \* the number of _encoder calls made by the parent itself
    garbage         \* what numpy.empty left in the buffer A

peVars == <<n, n_threads, poison, pc, A, input_buffer, input_queue,
            output_queue, num_Q, diagnostics, wpc, wrange, inline_runs,
            garbage>>

\* ------------------------------------------------------------------------
\* The ADMM loop of _encoder and of dictionary
\* ------------------------------------------------------------------------
VARIABLES
    solver,         \* "encoder" (_encoder) or "dictionary" (dictionary)
    max_iter,       \* the max_iter argument
    apc,            \* "loop": in the ADMM loop, "done": returned
    t,              \* the loop variable t
    iters,          \* the number of iterations executed so far
    rho,            \* the augmented lagrangian weight
    dual_exp,       \* the power of TAU the rescalings have applied to the
                    \* scaled dual variable (O in _encoder, W in dictionary)
    cache,          \* Dinv (_encoder) or SOLVER (dictionary): the rho it was
                    \* built from and the number of times it was built
    primal,         \* the last primal update: the rho and the cache it used
    data,           \* the inputs: the checkup outcomes they can produce
    DIAG            \* _DIAG: converged, the samples of the checkups, num_steps

admmVars == <<solver, max_iter, apc, t, iters, rho, dual_exp, cache, primal,
              data, DIAG>>

\* ------------------------------------------------------------------------
\* learn_dictionary
\* ------------------------------------------------------------------------
VARIABLES
    m,              \* the number of codewords asked for
    d,              \* X.shape[0] / 2, the size of a codeword
    max_steps,      \* the number of alternating minimization steps
    reg,            \* the name of the regularizer
    has_shape,      \* whether width and height are among the kwargs
    lpc,            \* "call", "loop", "returned", "raised"
    T,              \* the step index of enumerate(..., 1); 0 before the loop
    D,              \* the dictionary: the l2 norm of each of its codewords
    cw,             \* D.shape[0] / 2, the size of the codewords of D
    StS,            \* the running statistics StS (one entry), a fraction
    StX,            \* the running statistics StX (one entry), a fraction
    batches         \* (StS_new, StX_new) of every batch so far

learnVars == <<m, d, max_steps, reg, has_shape, lpc, T, D, cw, StS, StX,
               batches>>

\* ------------------------------------------------------------------------
\* parallel_encoder with n_threads = 1 and with n_threads > 1, on the same
\* numbers
\* ------------------------------------------------------------------------
VARIABLES
    X,              \* the data: the real part of each column (d = 1)
    lam,            \* the weight of the l1 regularizer
    workers,        \* n_threads of the second call
    budget,         \* max_iter of both calls
    epc,            \* "call", "serial", "parallel", "done"
    solving,        \* the running calls of _encoder: range and loop state
    serial,         \* the result and the diagnostics with n_threads = 1
    parallel        \* the same with n_threads = workers

eqVars == <<X, lam, workers, budget, epc, solving, serial, parallel>>

\* ------------------------------------------------------------------------
\* the utility functions, the regularizers and the projection, called alone
\* ------------------------------------------------------------------------
VARIABLES
    called,         \* the name of the function
    given,          \* its argument
    inner,          \* the value passed from the first function to the second
    result,         \* what it returned, or the error it raised
    upc             \* "call", "inner", "done", "raised"

utilVars == <<called, given, inner, result, upc>>

vars == <<peVars, admmVars, learnVars, eqVars, utilVars>>

\* the variables the actions of parallel_encoder leave alone
notPE == <<admmVars, learnVars, eqVars, utilVars>>

\* the variables the actions of the ADMM solvers leave alone
notADMM == <<peVars, learnVars, eqVars, utilVars>>

\* the variables the actions of learn_dictionary leave alone
notLearn == <<peVars, admmVars, eqVars, utilVars>>

\* the variables the two compared calls leave alone
notEq == <<peVars, admmVars, learnVars, utilVars>>

\* the variables a call of a utility function leaves alone
notUtil == <<peVars, admmVars, learnVars, eqVars>>

Min(a, b) == IF a < b THEN a ELSE b

\* what an unwritten column of numpy.empty may hold
Garbage == {<<"g0">>, <<"g1">>}

ThreadChoices == (0 - 1) .. MaxThreads

SplitThreadChoices == (0 - 2) .. MaxSplitThreads

\* xrange(0, stop, step) for step > 0, as a sequence
RECURSIVE XRangeFrom(_, _, _)
XRangeFrom(i, stop, step) ==
    IF i >= stop THEN <<>> ELSE <<i>> \o XRangeFrom(i + step, stop, step)

\* xrange(0, stop, step): empty for a negative step (stop >= 0)
XRange(stop, step) == IF step < 0 THEN <<>> ELSE XRangeFrom(0, stop, step)

\* The activations _encoder computes for input column c when it is solved
\* within the slice X[:, i:j]: the ADMM solve is joint over the slice.
Activation(c, i, j) == <<"a", c, i, j>>

\* _encoder(X[:, i:j], D, reg): column k (1-based here) of the result is
\* the activation of the slice's k-th column, which is X's column i + k - 1.
EncoderTask(i, j) == [k \in 1 .. (j - i) |-> Activation(i + k - 1, i, j)]

\* the encoder raises on a slice that holds a column reg cannot process
EncoderRaises(i, j) == \E c \in poison : i <= c /\ c < j

\* (mutant) the result is written at the front of A, not at its own range
PlaceAtFront(M, i, j, a_ij) ==
    [c \in DOMAIN M |-> IF c < j - i THEN a_ij[c + 1] ELSE M[c]]

\* A[:, i:j] = a_ij
Place(M, i, j, a_ij) ==
    [c \in DOMAIN M |-> IF i <= c /\ c < j THEN a_ij[c - i + 1] ELSE M[c]]

\* (mutant) the block size rounded up, not down
BlockSizeCeil(nn, k) == (nn + k - 1) \div k

\* B = n / n_threads (Python 2: floor division of ints)
BlockSize(nn, k) == nn \div k

\* the (i, j) put on the input queue, in order
QueuedRanges(nn, k) ==
    LET B == BlockSize(nn, k)
        starts == XRange(nn, B)
    IN  [q \in 1 .. Len(starts) |-> <<starts[q], Min(nn, starts[q] + B)>>]

\* (mutant) the test taken as n_threads <= 1
PuntsAtMostOne == n_threads <= 1 \/ n < n_threads

\* if n_threads == 1 or n < n_threads
Punts == n_threads = 1 \/ n < n_threads

\* the state at the call of parallel_encoder, for n <= maxn columns and
\* n_threads among threads
PECall(maxn, threads) ==
    /\ n \in 0 .. maxn
    /\ n_threads \in threads
    /\ poison \in {{}} \cup {{c} : c \in 0 .. (n - 1)}
    /\ pc = "call"
    /\ A = <<>>
    /\ input_buffer = <<>>
    /\ input_queue = <<>>
    /\ output_queue = <<>>
    /\ num_Q = 0
    /\ diagnostics = <<>>
    /\ wpc = <<>>
    /\ wrange = <<>>
    /\ inline_runs = 0
    /\ garbage \in Garbage

\* return _encoder(X, D, reg, ...): the single-threaded path
Punt ==
    /\ pc = "call"
    /\ Punts
    /\ inline_runs' = inline_runs + 1
    /\ IF EncoderRaises(0, n)
       THEN /\ pc' = "raised"
            /\ A' = A
       ELSE /\ pc' = "returned"
            /\ A' = [c \in 0 .. (n - 1) |-> EncoderTask(0, n)[c + 1]]
    /\ UNCHANGED <<n, n_threads, poison, input_buffer, input_queue,
                   output_queue, num_Q, diagnostics, wpc, wrange, garbage>>
    /\ UNCHANGED notPE

\* A = numpy.empty(...); build up the input queue; launch the encoders
Dispatch ==
    /\ pc = "call"
    /\ ~Punts
    /\ IF n_threads = 0 \/ BlockSize(n, n_threads) = 0
       THEN \* ZeroDivisionError (n / 0), or xrange() with a step of 0
            /\ pc' = "raised"
            /\ A' = [c \in 0 .. (n - 1) |-> garbage]
            /\ UNCHANGED <<input_buffer, num_Q, wpc, wrange>>
       ELSE LET ranges == QueuedRanges(n, n_threads)
                nw == IF n_threads > 0 THEN n_threads ELSE 0
            IN  /\ A' = [c \in 0 .. (n - 1) |-> garbage]
                /\ input_buffer' = ranges
                /\ num_Q' = Len(ranges)
                /\ wpc' = [w \in 1 .. nw |-> "check"]
                /\ wrange' = [w \in 1 .. nw |-> <<>>]
                /\ pc' = IF Len(ranges) > 0 THEN "collect" ELSE "returned"
    /\ UNCHANGED <<n, n_threads, poison, input_queue, output_queue,
                   diagnostics, inline_runs, garbage>>
    /\ UNCHANGED notPE

\* the feeder thread of input_queue moves one item into the pipe
Feed ==
    /\ input_buffer # <<>>
    /\ input_queue' = Append(input_queue, Head(input_buffer))
    /\ input_buffer' = Tail(input_buffer)
    /\ UNCHANGED <<n, n_threads, poison, pc, A, output_queue, num_Q,
                   diagnostics, wpc, wrange, inline_runs, garbage>>
    /\ UNCHANGED notPE

\* while not input_queue.empty(): ... ; output_queue.close(); join_thread()
WorkerCheck(w) ==
    /\ wpc[w] = "check"
    /\ wpc' = [wpc EXCEPT ![w] = IF input_queue = <<>> THEN "done" ELSE "get"]
    /\ UNCHANGED <<n, n_threads, poison, pc, A, input_buffer, input_queue,
                   output_queue, num_Q, diagnostics, wrange, inline_runs,
                   garbage>>
    /\ UNCHANGED notPE

\* (i, j) = input_queue.get(True, 1), an item arrives in time
WorkerGet(w) ==
    /\ wpc[w] = "get"
    /\ input_queue # <<>>
    /\ wrange' = [wrange EXCEPT ![w] = Head(input_queue)]
    /\ input_queue' = Tail(input_queue)
    /\ wpc' = [wpc EXCEPT ![w] = "encode"]
    /\ UNCHANGED <<n, n_threads, poison, pc, A, input_buffer, output_queue,
                   num_Q, diagnostics, inline_runs, garbage>>
    /\ UNCHANGED notPE

\* input_queue.get(True, 1) raises Queue.Empty after a second without item
WorkerTimeout(w) ==
    /\ wpc[w] = "get"
    /\ input_queue = <<>>
    /\ wpc' = [wpc EXCEPT ![w] = "timeout"]
    /\ UNCHANGED <<n, n_threads, poison, pc, A, input_buffer, input_queue,
                   output_queue, num_Q, diagnostics, wrange, inline_runs,
                   garbage>>
    /\ UNCHANGED notPE

\* a_ij = _encoder(X[:, i:j], ...); diag = None (output_diagnostics is
\* False, the default); output_queue.put((i, j, a_ij, diag))
WorkerEncode(w) ==
    /\ wpc[w] = "encode"
    /\ LET i == wrange[w][1]
           j == wrange[w][2]
       IN  IF EncoderRaises(i, j)
           THEN /\ wpc' = [wpc EXCEPT ![w] = "failed"]
                /\ UNCHANGED output_queue
           ELSE /\ wpc' = [wpc EXCEPT ![w] = "check"]
                /\ output_queue' =
                       Append(output_queue, <<i, j, EncoderTask(i, j), "None">>)
    /\ UNCHANGED <<n, n_threads, poison, pc, A, input_buffer, input_queue,
                   num_Q, diagnostics, wrange, inline_runs, garbage>>
    /\ UNCHANGED notPE

\* (i, j, a_ij, diags) = output_queue.get(True); A[:, i:j] = a_ij; ...
Collect ==
    /\ pc = "collect"
    /\ num_Q > 0
    /\ output_queue # <<>>
    /\ LET r == Head(output_queue)
       IN  /\ A' = Place(A, r[1], r[2], r[3])
           /\ diagnostics' = Append(diagnostics, r[4])
    /\ output_queue' = Tail(output_queue)
    /\ num_Q' = num_Q - 1
    /\ pc' = IF num_Q - 1 > 0 THEN "collect" ELSE "returned"
    /\ UNCHANGED <<n, n_threads, poison, input_buffer, input_queue, wpc,
                   wrange, inline_runs, garbage>>
    /\ UNCHANGED notPE

PENext ==
    \/ Punt
    \/ Dispatch
    \/ Feed
    \/ \E w \in DOMAIN wpc : WorkerCheck(w)
    \/ \E w \in DOMAIN wpc : WorkerGet(w)
    \/ \E w \in DOMAIN wpc : WorkerTimeout(w)
    \/ \E w \in DOMAIN wpc : WorkerEncode(w)
    \/ Collect


\* ------------------------------------------------------------------------
\* The ADMM solvers
\* ------------------------------------------------------------------------

\* The magic numbers.  A float m * 10^x * TAU^k is the record [m, x, k]:
\* the only operations of the code on rho are rho * TAU and rho / TAU, which
\* are exact in binary floating point.
RHO_INIT_A == [m |-> 2, x |-> 0 - 3, k |-> 0]
RHO_INIT_D == [m |-> 2, x |-> 0 - 1, k |-> 0]
RHO_MIN == [m |-> 1, x |-> 0 - 6, k |-> 0]
RHO_MAX == [m |-> 1, x |-> 6, k |-> 0]
MU == 10
TAU == 2
T_CHECKUP == 5

RECURSIVE Pow(_, _)
Pow(b, e) == IF e <= 0 THEN 1 ELSE b * Pow(b, e - 1)

\* the largest integer of the arithmetic
Largest == Pow(2, 30) + (Pow(2, 30) - 1)

\* a * b for a, b > 0, held at Largest when it would pass it
Times(a, b) == IF a > Largest \div b THEN Largest ELSE a * b

\* a < b for two floats [m, x, k], compared exactly (one of the two, at
\* least, is below Largest in their common unit)
Less(a, b) ==
    LET mx == Min(a.x, b.x)
        mk == Min(a.k, b.k)
    IN  Times(Times(a.m, Pow(10, a.x - mx)), Pow(TAU, a.k - mk))
          < Times(Times(b.m, Pow(10, b.x - mx)), Pow(TAU, b.k - mk))

\* r * TAU
TimesTau(r) == [r EXCEPT !.k = @ + 1]

\* r / TAU
OverTau(r) == [r EXCEPT !.k = @ - 1]

\* what the residuals and the tolerances of a checkup may be: they are
\* norms computed from the data (X, D, reg or StS, StX)
Residuals == {0, 1, 11}
Tolerances == {1, 2}

\* (ERR_primal, eps_primal, ERR_dual, eps_dual) of a checkup
Checkups ==
    [err_primal : Residuals, eps_primal : Tolerances,
     err_dual : Residuals, eps_dual : Tolerances]

\* The inputs of a solve.  Either any outcome can occur at any checkup, in
\* a solve of at most MaxIter iterations; or the data yield the same
\* outcome at every checkup, in a solve of MaxLongIter iterations (long
\* enough for rho to reach RHO_MAX and RHO_MIN).
Inputs ==
    {[outcomes |-> Checkups, max_iter |-> b] : b \in 0 .. MaxIter}
    \cup {[outcomes |-> {c}, max_iter |-> MaxLongIter] : c \in Checkups}

\* (mutant) one residual within its tolerance is taken as convergence
WithinToleranceEither(ERR_primal, eps_primal, ERR_dual, eps_dual) ==
    ERR_primal < eps_primal \/ ERR_dual <= eps_dual

\* if ERR_primal < eps_primal and ERR_dual <= eps_dual
WithinTolerance(ERR_primal, eps_primal, ERR_dual, eps_dual) ==
    ERR_primal < eps_primal /\ ERR_dual <= eps_dual

\* (mutant) the bounds are tested on rho itself, not on the rescaled rho
RescalingTestsRho(r, ERR_primal, ERR_dual) ==
    IF ERR_primal > MU * ERR_dual /\ Less(r, RHO_MAX)
    THEN "up"
    ELSE IF ERR_dual > MU * ERR_primal /\ Less(RHO_MIN, r)
         THEN "down"
         ELSE "none"

\* (mutant) the rescaling without the bound RHO_MAX, RHO_MIN on rho
RescalingUnbounded(r, ERR_primal, ERR_dual) ==
    IF ERR_primal > MU * ERR_dual
    THEN "up"
    ELSE IF ERR_dual > MU * ERR_primal
         THEN "down"
         ELSE "none"

\* the branch of the adaptive rho rule taken after a checkup that did not
\* converge
Rescaling(r, ERR_primal, ERR_dual) ==
    IF ERR_primal > MU * ERR_dual /\ Less(TimesTau(r), RHO_MAX)
    THEN "up"
    ELSE IF ERR_dual > MU * ERR_primal /\ Less(RHO_MIN, OverTau(r))
         THEN "down"
         ELSE "none"

\* (mutant) the cache is left as it is when rho changes
KeepCache(c, r) == c

\* Dinv = spdiags((1.0 + Dnorm / rho)**-1.0, ...) in _encoder,
\* SOLVER = factorized(StS + rho * ident) in dictionary
Rebuild(c, r) == [rho |-> r, builds |-> c.builds + 1]

\* the state at the start of the ADMM loop of a solver
ADMMStart(which, rho_init) ==
    /\ solver = which
    /\ \E i \in Inputs : data = i.outcomes /\ max_iter = i.max_iter
    /\ apc = "loop"
    /\ t = 0
    /\ iters = 0
    /\ rho = rho_init
    /\ dual_exp = 0
    /\ cache = [rho |-> rho_init, builds |-> 1]
    /\ primal = <<>>
    /\ DIAG = [converged |-> FALSE, samples |-> <<>>, num_steps |-> 0 - 1]

\* no solver is running
ADMMIdle ==
    /\ solver = "none"
    /\ max_iter = 0
    /\ apc = "idle"
    /\ t = 0
    /\ iters = 0
    /\ rho = RHO_INIT_A
    /\ dual_exp = 0
    /\ cache = [rho |-> RHO_INIT_A, builds |-> 0]
    /\ primal = <<>>
    /\ data = {}
    /\ DIAG = [converged |-> FALSE, samples |-> <<>>, num_steps |-> 0 - 1]

\* one pass through the body of the ADMM loop, common to both solvers:
\* primal update with the cache, proximal update, dual update, and every
\* T_CHECKUP iterations the stopping criteria and the adaptive rho
Iteration ==
    /\ apc = "loop"
    /\ iters < max_iter
    /\ ~DIAG.converged
    /\ t' = iters
    /\ iters' = iters + 1
    /\ primal' = [rho |-> rho, cache |-> cache.rho]
    /\ IF iters % T_CHECKUP # 0
       THEN UNCHANGED <<rho, dual_exp, cache, DIAG>>
       ELSE \E c \in data :
              LET ERR_primal == c.err_primal
                  ERR_dual == c.err_dual
                  eps_primal == c.eps_primal
                  eps_dual == c.eps_dual
                  sample == [err_primal |-> ERR_primal, err_dual |-> ERR_dual,
                             eps_primal |-> eps_primal, eps_dual |-> eps_dual,
                             rho |-> rho]
                  samples == Append(DIAG.samples, sample)
              IN  IF WithinTolerance(ERR_primal, eps_primal, ERR_dual, eps_dual)
                  THEN /\ DIAG' = [DIAG EXCEPT !.converged = TRUE,
                                               !.samples = samples]
                       /\ UNCHANGED <<rho, dual_exp, cache>>
                  ELSE /\ DIAG' = [DIAG EXCEPT !.samples = samples]
                       /\ LET branch == Rescaling(rho, ERR_primal, ERR_dual)
                          IN  CASE branch = "up" ->
                                     /\ rho' = TimesTau(rho)
                                     /\ dual_exp' = dual_exp - 1
                                     /\ cache' = Rebuild(cache, TimesTau(rho))
                                [] branch = "down" ->
                                     /\ rho' = OverTau(rho)
                                     /\ dual_exp' = dual_exp + 1
                                     /\ cache' = Rebuild(cache, OverTau(rho))
                                [] OTHER ->
                                     UNCHANGED <<rho, dual_exp, cache>>
    /\ UNCHANGED <<solver, max_iter, apc, data>>
    /\ UNCHANGED notADMM

\* the end of the loop: _DIAG['num_steps'] = t; return
Return ==
    /\ apc = "loop"
    /\ iters = max_iter \/ DIAG.converged
    /\ apc' = "done"
    /\ DIAG' = [DIAG EXCEPT !.num_steps = t]
    /\ UNCHANGED <<solver, max_iter, t, iters, rho, dual_exp, cache, primal,
                   data>>
    /\ UNCHANGED notADMM

\* for t in xrange(max_iter): ... in _encoder
EncoderIterate == solver = "encoder" /\ Iteration

\* _DIAG['num_steps'] = t; return (Z, _DIAG) in _encoder
EncoderReturn == solver = "encoder" /\ Return

\* for t in xrange(max_iter): ... in dictionary
DictionaryIterate == solver = "dictionary" /\ Iteration

\* _DIAG['num_steps'] = t; return (..., _DIAG) in dictionary
DictionaryReturn == solver = "dictionary" /\ Return

\* no call of parallel_encoder is running
PEIdle ==
    /\ n = 0
    /\ n_threads = 1
    /\ poison = {}
    /\ pc = "idle"
    /\ A = <<>>
    /\ input_buffer = <<>>
    /\ input_queue = <<>>
    /\ output_queue = <<>>
    /\ num_Q = 0
    /\ diagnostics = <<>>
    /\ wpc = <<>>
    /\ wrange = <<>>
    /\ inline_runs = 0
    /\ garbage = <<"g0">>

\* ------------------------------------------------------------------------
\* learn_dictionary
\* ------------------------------------------------------------------------

\* Fractions num / den, kept in lowest terms; 0 / 0 is NaN.
RECURSIVE GCD(_, _)
GCD(a, b) == IF b = 0 THEN a ELSE GCD(b, a % b)

Abs(a) == IF a < 0 THEN 0 - a ELSE a

NaN == [num |-> 0, den |-> 0]

IsNaN(r) == r.den = 0

Frac(a, b) ==
    IF b = 0
    THEN NaN
    ELSE LET g == GCD(Abs(a), Abs(b))
             sgn == IF b < 0 THEN 0 - 1 ELSE 1
         IN  [num |-> sgn * (a \div g), den |-> sgn * (b \div g)]

FracAdd(a, b) ==
    IF IsNaN(a) \/ IsNaN(b) THEN NaN
    ELSE Frac(a.num * b.den + b.num * a.den, a.den * b.den)

FracSub(a, b) ==
    IF IsNaN(a) \/ IsNaN(b) THEN NaN
    ELSE Frac(a.num * b.den - b.num * a.den, a.den * b.den)

FracMul(a, b) ==
    IF IsNaN(a) \/ IsNaN(b) THEN NaN
    ELSE Frac(a.num * b.num, a.den * b.den)

\* a ** e for an integer e >= 0
RECURSIVE FracPow(_, _)
FracPow(a, e) == IF e = 0 THEN Frac(1, 1) ELSE FracMul(a, FracPow(a, e - 1))

\* beta = 1.0
beta == 1

\* (mutant) the step index taken 0-based: alpha = (1 - 1/(T+1)) ** beta
AlphaZeroBased(step) ==
    FracPow(FracSub(Frac(1, 1), Frac(1, step + 1)), beta)

\* alpha = (1.0 - 1.0/T)**beta
Alpha(step) == FracPow(FracSub(Frac(1, 1), Frac(1, step)), beta)

\* alpha * St + (1.0 - alpha) * St_new
Merge(alpha, St, St_new) ==
    FracAdd(FracMul(alpha, St), FracMul(FracSub(Frac(1, 1), alpha), St_new))

\* the entries (StS_new, StX_new) the statistics of a batch may have
BatchStats == {<<Frac(1, 1), Frac(0, 1)>>, <<Frac(2, 1), Frac(3, 1)>>,
               <<Frac(5, 1), Frac(0 - 1, 1)>>}

\* the regularizer names: the four known ones and an unknown one
RegNames == {"l2_group", "l1", "l1_space", "lowpass", "tv"}

\* the regularizers that read width and height
NeedsShape(name) == name \in {"l1_space", "lowpass"}

\* D / (numpy.sum(D**2, axis=0) ** 0.5), on the l2 norm of one codeword:
\* 0 / 0 is NaN, every other codeword gets norm 1
normalize_dictionary(norm) ==
    IF norm \in {"zero", "nan"} THEN "nan" ELSE "unit"

\* init_svd: U = svd(Xsamp)[0] is 2d-by-2d with orthonormal columns, and
\* U[:, :m] keeps at most 2d of them
init_svd(rows, count) ==
    [k \in 1 .. Min(count, rows) |-> normalize_dictionary("unit")]

\* the norms the codewords may have when dictionary returns E, the
\* projection onto the unit ball of the last iterate
Projected == {"zero", "small", "unit"}

\* the state at the call of learn_dictionary
LearnCall ==
    /\ m \in 1 .. MaxM
    /\ d \in 1 .. MaxD
    /\ max_steps \in 0 .. MaxSteps
    /\ reg \in RegNames
    /\ has_shape \in BOOLEAN
    /\ lpc = "call"
    /\ T = 0
    /\ D = <<>>
    /\ cw = 0
    /\ StS = NaN
    /\ StX = NaN
    /\ batches = <<>>

\* learn_dictionary is not running
LearnIdle ==
    /\ m = 1
    /\ d = 1
    /\ max_steps = 0
    /\ reg = "l1"
    /\ has_shape = FALSE
    /\ lpc = "idle"
    /\ T = 0
    /\ D = <<>>
    /\ cw = 0
    /\ StS = NaN
    /\ StX = NaN
    /\ batches = <<>>

\* configure the regularizer (or raise ValueError), the online updates and
\* the encoder; D = init_svd(X, m)
Configure ==
    /\ lpc = "call"
    /\ IF reg \in {"l2_group", "l1", "l1_space", "lowpass"}
       THEN /\ lpc' = "loop"
            /\ D' = init_svd(2 * d, m)
            /\ cw' = d
       ELSE /\ lpc' = "raised"
            /\ UNCHANGED <<D, cw>>
    /\ UNCHANGED <<m, d, max_steps, reg, has_shape, T, StS, StX, batches>>
    /\ UNCHANGED notLearn

\* one alternation step: encode the batch, compute its statistics, merge
\* them into the running statistics, optimize and rescale the dictionary
Step ==
    /\ lpc = "loop"
    /\ T < max_steps
    /\ T' = T + 1
    /\ IF (NeedsShape(reg) /\ ~has_shape) \/ cw # d
       THEN \* the encoder fails: reg multiplies width and height, which are
            \* None, or the shapes of D and X_batch disagree
            /\ lpc' = "raised"
            /\ UNCHANGED <<D, cw, StS, StX, batches>>
       ELSE \E new \in BatchStats :
              LET poisoned == \E k \in DOMAIN D : D[k] = "nan"
                  StS_new == IF poisoned THEN NaN ELSE new[1]
                  StX_new == IF poisoned THEN NaN ELSE new[2]
                  alpha == Alpha(T')
              IN  /\ batches' = Append(batches, <<StS_new, StX_new>>)
                  /\ IF T' = 1
                     THEN /\ StS' = StS_new
                          /\ StX' = StX_new
                     ELSE /\ StS' = Merge(alpha, StS, StS_new)
                          /\ StX' = Merge(alpha, StX, StX_new)
                  /\ IF (d * Len(D)) % m # 0
                     THEN \* dictionary: StX, of size 2 * d * Len(D), does
                          \* not split into m codewords
                          /\ lpc' = "raised"
                          /\ UNCHANGED <<D, cw>>
                     ELSE \/ /\ lpc' = "loop"
                             /\ cw' = (d * Len(D)) \div m
                             /\ \E E \in [1 .. m -> Projected] :
                                   D' = [k \in 1 .. m |->
                                           IF poisoned THEN "nan"
                                           ELSE normalize_dictionary(E[k])]
                          \/ \* factorized(StS + rho * ident) on a matrix of
                             \* NaN: the solver library may reject it
                             /\ poisoned
                             /\ lpc' = "raised"
                             /\ UNCHANGED <<D, cw>>
    /\ UNCHANGED <<m, d, max_steps, reg, has_shape>>
    /\ UNCHANGED notLearn

\* after the last step: package the encoder, return (my_encoder, D, ...)
Finish ==
    /\ lpc = "loop"
    /\ T = max_steps
    /\ lpc' = "returned"
    /\ UNCHANGED <<m, d, max_steps, reg, has_shape, T, D, cw, StS, StX,
                   batches>>
    /\ UNCHANGED notLearn

\* ------------------------------------------------------------------------
\* _encoder on numbers
\* ------------------------------------------------------------------------
\* The instance: d = 1, m = 1, the codeword is 1 + 0i (so D is the 2-by-2
\* identity and Dnorm = 1), the columns of X are real, and reg is the l1
\* shrinkage.  The imaginary row of A, Z and O then stays 0 and only the real
\* row is kept.  Floats are fixed-point numbers: an integer v stands for
\* v / Unit, divisions round to the nearest integer.

\* one is Unit
Unit == 100000

\* lam is given in LamScale-ths of 1 / Unit
LamScale == 10

\* ABSTOL = 1e-4 and RELTOL = 1e-3
ABSTOL == 10

RELTOL == Frac(1, 1000)

\* a / b for b > 0, rounded to the nearest integer
Round(a, b) == (2 * a + b) \div (2 * b)

\* the largest r in lo .. hi with r * r <= v
RECURSIVE SqrtBetween(_, _, _)
SqrtBetween(v, lo, hi) ==
    IF lo >= hi
    THEN lo
    ELSE LET mid == (lo + hi + 1) \div 2
         IN  IF mid * mid <= v
             THEN SqrtBetween(v, mid, hi)
             ELSE SqrtBetween(v, lo, mid - 1)

\* v ** 0.5, rounded down
Sqrt(v) == SqrtBetween(v, 0, 46340)

RECURSIVE SumOfSquares(_, _)
SumOfSquares(v, q) ==
    IF q = 0 THEN 0 ELSE SumOfSquares(v, q - 1) + v[q] * v[q]

\* scipy.linalg.norm(v)
Norm(v) == Sqrt(SumOfSquares(v, Len(v)))

Max(a, b) == IF a > b THEN a ELSE b

\* rho = RhoNum(r) / RhoDen(r) for a float r = [m, x, k] with x <= 0
RhoNum(r) == r.m * Pow(TAU, r.k)

RhoDen(r) == Pow(10, 0 - r.x) * Pow(TAU, 0 - r.k)

\* the shrinkage of reg_l1_real
Shrink(v, threshold) ==
    IF v - threshold > 0
    THEN v - threshold
    ELSE IF v + threshold < 0 THEN v + threshold ELSE 0

\* the state of _encoder before the loop
EncoderStart(n_) ==
    [iters |-> 0, Z |-> [c \in 1 .. n_ |-> 0], O |-> [c \in 1 .. n_ |-> 0],
     rho |-> RHO_INIT_A, converged |-> FALSE, rhos |-> <<>>]

\* one iteration of the ADMM loop of _encoder, t = s.iters
EncoderStep(Xs, lam_, s) ==
    LET n_ == Len(Xs)
        num == RhoNum(s.rho)
        den == RhoDen(s.rho)
        \* A = _ridge(D, DX + rho * (Z - O), Dinv) = (X + rho (Z - O)) / (1 + rho)
        A_ == [c \in 1 .. n_ |->
                 Round(den * Xs[c] + num * (s.Z[c] - s.O[c]), den + num)]
        \* threshold = lam / rho
        threshold == Round(lam_ * den, LamScale * num)
        Z_ == [c \in 1 .. n_ |-> Shrink(A_[c] + s.O[c], threshold)]
        O_ == [c \in 1 .. n_ |-> s.O[c] + A_[c] - Z_[c]]
        checkup == s.iters % T_CHECKUP = 0
        ERR_primal == Norm([c \in 1 .. n_ |-> A_[c] - Z_[c]])
        ERR_dual == Round(num * Norm([c \in 1 .. n_ |-> Z_[c] - s.Z[c]]), den)
        \* A.size = O.size = 2 * d * m * n
        abs_tol == Sqrt(2 * n_ * ABSTOL * ABSTOL)
        eps_primal ==
            abs_tol + Round(RELTOL.num * Max(Norm(A_), Norm(Z_)), RELTOL.den)
        eps_dual == abs_tol + Round(RELTOL.num * Norm(O_), RELTOL.den)
        stop == checkup
                /\ WithinTolerance(ERR_primal, eps_primal, ERR_dual, eps_dual)
        branch == IF checkup /\ ~stop
                  THEN Rescaling(s.rho, ERR_primal, ERR_dual)
                  ELSE "none"
    IN  [iters |-> s.iters + 1,
         Z |-> Z_,
         O |-> CASE branch = "up" -> [c \in 1 .. n_ |-> Round(O_[c], TAU)]
                 [] branch = "down" -> [c \in 1 .. n_ |-> O_[c] * TAU]
                 [] OTHER -> O_,
         rho |-> CASE branch = "up" -> TimesTau(s.rho)
                   [] branch = "down" -> OverTau(s.rho)
                   [] OTHER -> s.rho,
         converged |-> stop,
         rhos |-> Append(s.rhos, s.rho.k)]

\* for t in xrange(max_iter), left by break: the loop is over
Finished(s, max_iter_) == s.iters >= max_iter_ \/ s.converged

\* (mutant) the slice taken from the first column on
SliceFromStart(Xs, i, j) == [c \in 1 .. (j - i) |-> Xs[c]]

\* X[:, i:j], the columns numbered from 0
Slice(Xs, i, j) == [c \in 1 .. (j - i) |-> Xs[i + c]]

\* the (i, j) that parallel_encoder hands to _encoder: the whole batch
\* when it punts, the queued ranges otherwise
Solved(n_, threads) ==
    IF threads = 1 \/ n_ < threads
    THEN <<(<<0, n_>>)>>
    ELSE QueuedRanges(n_, threads)

\* the calls of _encoder of one call of parallel_encoder, not yet started
Started(n_, threads) ==
    LET ranges == Solved(n_, threads)
    IN  [q \in 1 .. Len(ranges) |->
           [i |-> ranges[q][1], j |-> ranges[q][2],
            s |-> EncoderStart(ranges[q][2] - ranges[q][1])]]

\* the results put into A range by range (A[:, i:j] = a_ij)
RECURSIVE Collected(_, _, _)
Collected(n_, done, q) ==
    IF q = 0
    THEN [c \in 0 .. (n_ - 1) |-> "empty"]
    ELSE Place(Collected(n_, done, q - 1), done[q].i, done[q].j, done[q].s.Z)

\* what a call of parallel_encoder returns: A, and for every range the rho
\* of each iteration of its solve
Returned(n_, done) ==
    [A |-> Collected(n_, done, Len(done)),
     ranges |-> [q \in 1 .. Len(done) |-> <<done[q].i, done[q].j>>],
     rhos |-> [q \in 1 .. Len(done) |-> done[q].s.rhos]]

\* the entries of X and the values of lam
Signals == {100, 3000, 20000}

Weights == {5, 200}

\* before the two calls
EqCall ==
    /\ \E n_ \in 1 .. MaxColumns : X \in [1 .. n_ -> Signals]
    /\ lam \in Weights
    /\ workers \in 2 .. MaxThreads
    /\ budget \in 0 .. MaxEncoderIter
    /\ epc = "call"
    /\ solving = <<>>
    /\ serial = <<>>
    /\ parallel = <<>>

\* no comparison is running
EqIdle ==
    /\ X = <<>>
    /\ lam = 0
    /\ workers = 1
    /\ budget = 0
    /\ epc = "idle"
    /\ solving = <<>>
    /\ serial = <<>>
    /\ parallel = <<>>

\* the solves whose loop is not over
Unfinished == {q \in DOMAIN solving : ~Finished(solving[q].s, budget)}

\* parallel_encoder(X, D, reg, n_threads=1, max_iter=budget) is called
CallSerial ==
    /\ epc = "call"
    /\ solving' = Started(Len(X), 1)
    /\ epc' = "serial"
    /\ UNCHANGED <<X, lam, workers, budget, serial, parallel>>
    /\ UNCHANGED notEq

\* one iteration of the loop of a running _encoder.  The solves of the
\* workers are independent of each other: they are taken range by range.
Iterate ==
    /\ epc \in {"serial", "parallel"}
    /\ Unfinished # {}
    /\ LET q == CHOOSE u \in Unfinished : \A v \in Unfinished : u <= v
           slice == Slice(X, solving[q].i, solving[q].j)
       IN  solving' =
             [solving EXCEPT ![q].s = EncoderStep(slice, lam, solving[q].s)]
    /\ UNCHANGED <<X, lam, workers, budget, epc, serial, parallel>>
    /\ UNCHANGED notEq

\* the call with n_threads = 1 returns; the same call is made with
\* n_threads = workers
ReturnSerial ==
    /\ epc = "serial"
    /\ Unfinished = {}
    /\ serial' = Returned(Len(X), solving)
    /\ solving' = Started(Len(X), workers)
    /\ epc' = "parallel"
    /\ UNCHANGED <<X, lam, workers, budget, parallel>>
    /\ UNCHANGED notEq

\* the call with n_threads = workers returns
ReturnParallel ==
    /\ epc = "parallel"
    /\ Unfinished = {}
    /\ parallel' = Returned(Len(X), solving)
    /\ epc' = "done"
    /\ UNCHANGED <<X, lam, workers, budget, solving, serial>>
    /\ UNCHANGED notEq

\* ------------------------------------------------------------------------
\* Matrices and the utility functions
\* ------------------------------------------------------------------------
\* A matrix is [rows, cols, at], at[r][c] its entry, rows and columns
\* numbered from 0.

Matrix(nrows, ncols, Entry(_, _)) ==
    [rows |-> nrows, cols |-> ncols,
     at |-> [r \in 0 .. (nrows - 1) |-> [c \in 0 .. (ncols - 1) |-> Entry(r, c)]]]

\* M[lo:hi, :]
RowSlice(M, lo, hi) ==
    LET lo_ == Min(lo, M.rows)
        hi_ == Min(hi, M.rows)
        E(r, c) == M.at[r + lo_][c]
    IN  Matrix(Max(hi_ - lo_, 0), M.cols, E)

\* M.T
Transposed(M) ==
    LET E(r, c) == M.at[c][r]
    IN  Matrix(M.cols, M.rows, E)

\* -M
Negated(M) ==
    LET E(r, c) == 0 - M.at[r][c]
    IN  Matrix(M.rows, M.cols, E)

\* range(0, -size, -step) for step > 0
RECURSIVE RangeDown(_, _, _)
RangeDown(i, stop, step) ==
    IF i <= stop THEN <<>> ELSE <<i>> \o RangeDown(i - step, stop, step)

\* scipy.sparse.spdiags(data, diags, nrows, ncols): row q of data lies on
\* the diagonal diags[q], its entry j in column j
spdiags(data_, diags, nrows, ncols) ==
    LET E(r, c) ==
          IF \E q \in DOMAIN diags : c - r = diags[q]
          THEN data_.at[(CHOOSE q \in DOMAIN diags : c - r = diags[q]) - 1][c]
          ELSE 0
    IN  Matrix(nrows, ncols, E)

\* _sparse_dblock(matrix): the i-th d-by-d block is diag(matrix[:, i])
sparse_dblock(matrix) ==
    LET size == matrix.rows * matrix.cols
    IN  Transposed(spdiags(Transposed(matrix),
                           RangeDown(0, 0 - size, matrix.rows),
                           size, matrix.rows))

\* scipy.sparse.bmat([[P, Q], [R, S]])
bmat(P, Q, R, S) ==
    LET E(r, c) ==
          IF r < P.rows
          THEN IF c < P.cols THEN P.at[r][c] ELSE Q.at[r][c - P.cols]
          ELSE IF c < R.cols
               THEN R.at[r - P.rows][c]
               ELSE S.at[r - P.rows][c - R.cols]
    IN  Matrix(P.rows + R.rows, P.cols + Q.cols, E)

\* (mutant) the imaginary blocks changed places: [A, B ; -B, A]
columns_to_diags_swapped(D_) ==
    LET d_ == D_.rows \div 2
        A_ == sparse_dblock(RowSlice(D_, 0, d_))
        B_ == sparse_dblock(RowSlice(D_, d_, D_.rows))
    IN  bmat(A_, B_, Negated(B_), A_)

\* columns_to_diags(D) = [A, -B ; B, A]
columns_to_diags(D_) ==
    LET d_ == D_.rows \div 2
        A_ == sparse_dblock(RowSlice(D_, 0, d_))
        B_ == sparse_dblock(RowSlice(D_, d_, D_.rows))
    IN  bmat(A_, Negated(B_), B_, A_)

\* diags_to_columns(Q): D[:d, k/d] = Q[range(d), range(k, k + d)] and
\* D[d:, k/d] = Q[range(d, d2), range(k, k + d)] for k in xrange(0, d * m, d)
diags_to_columns(Q) ==
    LET d_ == Q.rows \div 2
        E(r, c) == IF r < d_
                   THEN Q.at[r][c * d_ + r]
                   ELSE Q.at[r][c * d_ + (r - d_)]
    IN  Matrix(Q.rows, (Q.cols \div 2) \div d_, E)

\* the matrices D given to columns_to_diags: 2d-by-m, the entries all
\* different, of either sign, one of them possibly 0
Columns ==
    { LET E(r, c) == IF r * m_ + c = z THEN 0 ELSE sgn * (1 + r * m_ + c)
      IN  Matrix(2 * d_, m_, E) :
        <<d_, m_, z, sgn>> \in
          { q \in (1 .. MaxHalfRows) \X (1 .. MaxCodewords)
                    \X (0 .. 2 * MaxHalfRows * MaxCodewords) \X {0 - 1, 1} :
              q[3] <= 2 * q[1] * q[2] } }

\* no utility function is called
UtilIdle ==
    /\ called = "none"
    /\ given = <<>>
    /\ inner = <<>>
    /\ result = <<>>
    /\ upc = "idle"

\* before a call of function f on one of the arguments args
UtilCall(f, args) ==
    /\ called = f
    /\ given \in args
    /\ inner = <<>>
    /\ result = <<>>
    /\ upc = "call"

\* Q = columns_to_diags(D)
ToDiags ==
    /\ called = "columns_to_diags"
    /\ upc = "call"
    /\ inner' = columns_to_diags(given)
    /\ upc' = "inner"
    /\ UNCHANGED <<called, given, result>>
    /\ UNCHANGED notUtil

\* diags_to_columns(Q)
ToColumns ==
    /\ called = "columns_to_diags"
    /\ upc = "inner"
    /\ result' = diags_to_columns(inner)
    /\ upc' = "done"
    /\ UNCHANGED <<called, given, inner>>
    /\ UNCHANGED notUtil

\* the arrays given to real2_to_complex: ndim is the number of axes (an
\* array of one axis is held as one column), the entries are all different
\* but possibly one zero
Arrays ==
    { LET E(r, c) == IF r * n_ + c = z THEN 0 ELSE sgn * (1 + r * n_ + c)
      IN  [ndim |-> nd, arr |-> Matrix(rows, n_, E)] :
        <<nd, rows, n_, z, sgn>> \in
          { q \in {1, 2} \X (1 .. MaxRows) \X (1 .. MaxCols)
                    \X (0 .. MaxRows * MaxCols) \X {0 - 1, 1} :
              /\ q[1] = 1 => q[3] = 1
              /\ q[4] <= q[2] * q[3] } }

\* numpy broadcasting along the first axis: lengths are compatible when
\* they are equal or one of them is 1
Broadcastable(P, Q) == P.rows = Q.rows \/ P.rows = 1 \/ Q.rows = 1

\* P + 1.j * Q with broadcasting along the first axis: the operand of
\* length 1 is repeated to the length of the other one (which may be 0)
ComplexSum(P, Q) ==
    LET E(r, c) == [re |-> P.at[IF P.rows = 1 THEN 0 ELSE r][c],
                    im |-> Q.at[IF Q.rows = 1 THEN 0 ELSE r][c]]
    IN  Matrix(IF P.rows = 1 THEN Q.rows ELSE P.rows, P.cols, E)

\* the outcome of real2_to_complex(Y): the array returned, or the
\* ValueError of operands that cannot be broadcast together
real2_to_complex(Y) ==
    LET d_ == Y.arr.rows \div 2
        top == RowSlice(Y.arr, 0, d_)
        bottom == RowSlice(Y.arr, d_, Y.arr.rows)
    IN  IF Broadcastable(top, bottom)
        THEN [error |-> "none",
              value |-> [ndim |-> Y.ndim, arr |-> ComplexSum(top, bottom)]]
        ELSE [error |-> "ValueError", value |-> <<>>]

\* real2_to_complex(Y)
ToComplex ==
    /\ called = "real2_to_complex"
    /\ upc = "call"
    /\ LET out == real2_to_complex(given)
       IN  IF out.error = "none"
           THEN result' = out.value /\ upc' = "done"
           ELSE result' = <<>> /\ upc' = "raised"
    /\ UNCHANGED <<called, given, inner>>
    /\ UNCHANGED notUtil

\* a vector of numpy, indexed from 0
Vector(len, Entry(_)) ==
    [len |-> len, at |-> [i \in 0 .. (len - 1) |-> Entry(i)]]

\* columns_to_vector(X): [vec(A) ; vec(B)] of X = [A ; B], column by column
columns_to_vector(X_) ==
    LET d_ == X_.rows \div 2
        dm == d_ * X_.cols
        E(i) == IF i < dm
                THEN X_.at[i % d_][i \div d_]
                ELSE X_.at[d_ + ((i - dm) % d_)][(i - dm) \div d_]
    IN  Vector(2 * dm, E)

\* vector_to_columns(AB, m)
vector_to_columns(AB, m_) ==
    LET d_ == AB.len \div (2 * m_)
        E(r, c) == IF r < d_
                   THEN AB.at[c * d_ + r]
                   ELSE AB.at[d_ * m_ + c * d_ + (r - d_)]
    IN  Matrix(2 * d_, m_, E)

\* the float 1.0 of proj_l2_ball, in the unit of the coordinates
One == 10

\* numpy.repeat(tile(Z)) in place of numpy.tile(repeat(Z)): the codeword
\* whose norm divides coordinate i
RepeatOfTile(i, d_, m_) == (i \div 2) % m_

\* numpy.tile(numpy.repeat(Z, d), (1, 2)).flatten(): the codeword whose
\* norm divides coordinate i
TileOfRepeat(i, d_, m_) == (i % (d_ * m_)) \div d_

\* proj_l2_ball(X, m).  Z[k] is held by its square (in the unit One^2), and
\* a quotient X[i] / Z[k] by the pair of X[i] and Z[k]^2.
proj_l2_ball(X_, m_) ==
    LET d_ == X_.len \div (2 * m_)
        Xnorm(i) == X_.at[i] * X_.at[i] + X_.at[d_ * m_ + i] * X_.at[d_ * m_ + i]
        Sum(k_) ==
            LET upto[j \in 0 .. d_] ==
                    IF j = 0 THEN 0 ELSE upto[j - 1] + Xnorm(k_ * d_ + j - 1)
            IN  upto[d_]
        Zsq == [k_ \in 0 .. (m_ - 1) |-> Max(One * One, Sum(k_))]
        E(i) == [num |-> X_.at[i], zsq |-> Zsq[TileOfRepeat(i, d_, m_)]]
    IN  Vector(2 * d_ * m_, E)

\* the lengths of the codewords given to proj_l2_ball, as multiples of a
\* codeword of coordinates of modulus 5: 0, and with d = 1, 1/2, 1 and 3/2
Factors == {0, 1, 2, 3}

\* the dictionaries given to proj_l2_ball: 2d-by-m matrices of codewords of
\* different norms, no coordinate of which is zero unless the codeword is
Codewords ==
    UNION { { LET E(r, c) ==
                    sgn * f[c] * (IF r < d_
                                  THEN (IF r % 2 = 0 THEN 3 ELSE 0 - 4)
                                  ELSE (IF (r - d_) % 2 = 0 THEN 4 ELSE 3))
              IN  Matrix(2 * d_, m_, E) :
                f \in [0 .. (m_ - 1) -> Factors], sgn \in {0 - 1, 1} } :
            <<d_, m_>> \in (1 .. MaxHalfRows) \X (1 .. MaxCodewords) }

\* columns_to_vector(D + W), the argument of proj_l2_ball
ToVector ==
    /\ called = "proj_l2_ball"
    /\ upc = "call"
    /\ inner' = columns_to_vector(given)
    /\ upc' = "inner"
    /\ UNCHANGED <<called, given, result>>
    /\ UNCHANGED notUtil

\* E = proj_l2_ball(D + W, m)
Project ==
    /\ called = "proj_l2_ball"
    /\ upc = "inner"
    /\ result' = proj_l2_ball(inner, given.cols)
    /\ upc' = "done"
    /\ UNCHANGED <<called, given, inner>>
    /\ UNCHANGED notUtil

\* an array of numpy of four axes (height, width, m, n), indexed from 0
Array4(height, width, m_, n_, Entry(_, _, _, _)) ==
    [height |-> height, width |-> width, m |-> m_, n |-> n_,
     at |-> [r \in 0 .. (height - 1) |-> [c \in 0 .. (width - 1) |->
              [k_ \in 0 .. (m_ - 1) |-> [j \in 0 .. (n_ - 1) |->
                  Entry(r, c, k_, j)]]]]]

\* the number of quarter turns of the root of unity of the 2d-DFT of a
\* height-by-width patch at frequency (u, v) and position (r, c); the
\* lengths 1, 2 and 4 have roots among 1, i, -1, -i
QuarterTurns(height, width, u, v, r, c) ==
    (u * r * (4 \div height) + v * c * (4 \div width)) % 4

\* the real part of z * i^e
TurnedRe(z, e) ==
    CASE e = 0 -> z.re
      [] e = 1 -> 0 - z.im
      [] e = 2 -> 0 - z.re
      [] e = 3 -> z.im

\* x * i^(-e) for a real x
TurnedBack(x, e) ==
    CASE e = 0 -> [re |-> x, im |-> 0]
      [] e = 1 -> [re |-> 0, im |-> 0 - x]
      [] e = 2 -> [re |-> 0 - x, im |-> 0]
      [] e = 3 -> [re |-> 0, im |-> x]

\* entry (r, c, k, j) of
\* numpy.reshape(real2_to_complex(A), (height, width, m, n), order='F')
reshape(A_, height, width, m_, r, c, k_, j) ==
    LET i == r + height * (c + width * k_)
    IN  [re |-> A_.at[i][j], im |-> A_.at[height * width * m_ + i][j]]

\* entry (r, c, k, j) of numpy.fft.ifft2(F, axes=(0, 1)).real, times
\* height * width, for F the reshaped A
ifft2(A_, height, width, m_, r, c, k_, j) ==
    LET cells == height * width
        upto[q \in 0 .. cells] ==
            IF q = 0 THEN 0
            ELSE LET u == (q - 1) % height
                     v == (q - 1) \div height
                 IN  upto[q - 1] +
                     TurnedRe(reshape(A_, height, width, m_, u, v, k_, j),
                              QuarterTurns(height, width, u, v, r, c))
    IN  upto[cells]

\* entry (u, v, k, j) of numpy.fft.fft2(S, axes=(0, 1)) of a real array S
fft2(S, u, v, k_, j) ==
    LET cells == S.height * S.width
        term(q) ==
            LET r == q % S.height
                c == q \div S.height
            IN  TurnedBack(S.at[r][c][k_][j],
                           QuarterTurns(S.height, S.width, u, v, r, c))
        re_upto[q \in 0 .. cells] ==
            IF q = 0 THEN 0 ELSE re_upto[q - 1] + term(q - 1).re
        im_upto[q \in 0 .. cells] ==
            IF q = 0 THEN 0 ELSE im_upto[q - 1] + term(q - 1).im
    IN  [re |-> re_upto[cells], im |-> im_upto[cells]]

\* the shrinkage of reg_l1_real with its nonneg flag
shrinkage(v, threshold, nonneg) ==
    IF v - threshold > 0
    THEN v - threshold
    ELSE IF v + threshold < 0 /\ ~nonneg THEN v + threshold ELSE 0

\* Aspace[(height/2):, (width/2):, :, :] = 0.0
OutOfScope(r, c, height, width) ==
    r >= height \div 2 /\ c >= width \div 2

\* Aspace of reg_l1_space before the transform back (times height * width):
\* the inverse 2d-DFT, the shrinkage by lam / rho and, in a padded FFT,
\* the thresholding of the out-of-scope activations
Aspace(a) ==
    LET width == IF a.fft_pad THEN 2 * a.width ELSE a.width
        height == IF a.fft_pad THEN 2 * a.height ELSE a.height
        d_ == width * height
        m_ == a.A.rows \div (2 * d_)
        E(r, c, k_, j) ==
            IF a.fft_pad /\ OutOfScope(r, c, height, width)
            THEN 0
            ELSE shrinkage(ifft2(a.A, height, width, m_, r, c, k_, j),
                           a.threshold * d_, a.nonneg)
    IN  Array4(height, width, m_, a.A.cols, E)

\* Xout of reg_l1_space (times height * width): complex_to_real2 of the
\* 2d-DFT reshaped to height * width * m rows
Xout(S) ==
    LET dm == S.height * S.width * S.m
        E(i, j) ==
            LET q == i % dm
                z == fft2(S, q % S.height, (q \div S.height) % S.width,
                          q \div (S.height * S.width), j)
            IN  IF i < dm THEN z.re ELSE z.im
    IN  Matrix(2 * dm, S.n, E)

\* the width and the height of a patch: with them and their doubles the
\* 2d-DFT has its roots of unity among 1, i, -1, -i
Sides == {1, 2}

\* the calls of reg_l1_space: the activations A of m codewords and n
\* signals are the 2d-DFT of real patches of 1 or 2 pixels a side (2 or 4
\* in a padded FFT) with values between -3 and 3, and float(lam / rho) is
\* the threshold
SpaceCalls ==
    { LET side(x) == IF pad THEN 2 * x ELSE x
          E(r, c, k_, j) ==
              sgn * (((r * r + 2 * r + 3 * c + k_ + 2 * j) % 7) - 3)
      IN  [A |-> Xout(Array4(side(h), side(w), m_, n_, E)),
           width |-> w, height |-> h, nonneg |-> nn, fft_pad |-> pad,
           threshold |-> thr] :
        <<w, h, m_, n_, sgn, nn, pad, thr>> \in
            Sides \X Sides \X (1 .. MaxCodewords)
                \X (1 .. MaxSignals) \X {0 - 1, 1} \X BOOLEAN \X BOOLEAN
                \X {1, 2} }

\* reg_l1_space up to the thresholding of the out-of-scope activations
ToSpace ==
    /\ called = "reg_l1_space"
    /\ upc = "call"
    /\ inner' = Aspace(given)
    /\ upc' = "inner"
    /\ UNCHANGED <<called, given, result>>
    /\ UNCHANGED notUtil

\* reg_l1_space: transform back and return
ToFrequency ==
    /\ called = "reg_l1_space"
    /\ upc = "inner"
    /\ result' = Xout(inner)
    /\ upc' = "done"
    /\ UNCHANGED <<called, given, inner>>
    /\ UNCHANGED notUtil

\* ------------------------------------------------------------------------
\* Specifications
\* ------------------------------------------------------------------------
ADMMInit ==
    /\ \/ ADMMStart("encoder", RHO_INIT_A)
       \/ ADMMStart("dictionary", RHO_INIT_D)
    /\ PEIdle
    /\ LearnIdle
    /\ EqIdle
    /\ UtilIdle

ADMMNext ==
    \/ EncoderIterate
    \/ EncoderReturn
    \/ DictionaryIterate
    \/ DictionaryReturn

SpecADMM == ADMMInit /\ [][ADMMNext]_vars

LearnInit == LearnCall /\ PEIdle /\ ADMMIdle /\ EqIdle /\ UtilIdle

LearnNext ==
    \/ Configure
    \/ Step
    \/ Finish

SpecLearn == LearnInit /\ [][LearnNext]_vars

EqInit == EqCall /\ PEIdle /\ ADMMIdle /\ LearnIdle /\ UtilIdle

EqNext ==
    \/ CallSerial
    \/ Iterate
    \/ ReturnSerial
    \/ ReturnParallel

SpecEq == EqInit /\ [][EqNext]_vars

\* what is idle while a utility function is called
OthersIdle == PEIdle /\ ADMMIdle /\ LearnIdle /\ EqIdle

DiagsInit == UtilCall("columns_to_diags", Columns) /\ OthersIdle

DiagsNext ==
    \/ ToDiags
    \/ ToColumns

SpecDiags == DiagsInit /\ [][DiagsNext]_vars

Real2Init == UtilCall("real2_to_complex", Arrays) /\ OthersIdle

Real2Next == ToComplex

SpecReal2 == Real2Init /\ [][Real2Next]_vars

BallInit == UtilCall("proj_l2_ball", Codewords) /\ OthersIdle

BallNext ==
    \/ ToVector
    \/ Project

SpecBall == BallInit /\ [][BallNext]_vars

SpaceInit == UtilCall("reg_l1_space", SpaceCalls) /\ OthersIdle

SpaceNext ==
    \/ ToSpace
    \/ ToFrequency

SpecSpace == SpaceInit /\ [][SpaceNext]_vars

Init ==
    PECall(MaxN, ThreadChoices) /\ ADMMIdle /\ LearnIdle /\ EqIdle /\ UtilIdle

Next == PENext

Spec == Init /\ [][Next]_vars

\* the steps of worker process w
Worker(w) ==
    /\ w \in DOMAIN wpc
    /\ \/ WorkerCheck(w)
       \/ WorkerGet(w)
       \/ WorkerTimeout(w)
       \/ WorkerEncode(w)

\* what every step of parallel_encoder changes: the positions of the
\* parent and of the workers, and the queues
control == <<pc, wpc, input_buffer, input_queue, output_queue, num_Q>>

\* the parent, the feeder thread of input_queue and every worker process
\* are scheduled again and again while they can take a step
Fairness ==
    /\ WF_control(Punt)
    /\ WF_control(Dispatch)
    /\ WF_control(Collect)
    /\ WF_control(Feed)
    /\ \A w \in 1 .. MaxThreads : WF_control(Worker(w))

\* parallel_encoder under fair scheduling
SpecFair == Init /\ [][Next]_vars /\ Fairness

\* parallel_encoder up to the launch of the workers, over a wider range of
\* n and n_threads
SplitInit == PECall(MaxSplitN, SplitThreadChoices) /\ ADMMIdle /\ LearnIdle
             /\ EqIdle /\ UtilIdle

SplitNext ==
    \/ Punt
    \/ Dispatch

SpecSplit == SplitInit /\ [][SplitNext]_vars

\* ------------------------------------------------------------------------
\* Properties of parallel_encoder
\* ------------------------------------------------------------------------
Parallel == n >= n_threads /\ n_threads > 1

\* the ranges are pairwise disjoint and cover exactly the columns 0 .. n-1
Partition(ranges) ==
    /\ \A q \in DOMAIN ranges : 0 <= ranges[q][1] /\ ranges[q][2] <= n
    /\ \A c \in 0 .. (n - 1) :
           Cardinality({q \in DOMAIN ranges :
                            ranges[q][1] <= c /\ c < ranges[q][2]}) = 1

\* every item the parent put is still in the queue's buffer
JustDispatched ==
    /\ pc = "collect"
    /\ num_Q = Len(input_buffer)
    /\ \A c \in DOMAIN A : A[c] \in Garbage

Holds(r, c) == r[1] <= c /\ c < r[2]

\* the number of places that hold column c: a range waiting in the input
\* queue, a range a worker took, a result in the output queue, or the
\* column of A once written
Places(c) ==
      Cardinality({q \in DOMAIN input_buffer : Holds(input_buffer[q], c)})
    + Cardinality({q \in DOMAIN input_queue : Holds(input_queue[q], c)})
    + Cardinality({w \in DOMAIN wpc :
                      wpc[w] \in {"encode", "failed"} /\ Holds(wrange[w], c)})
    + Cardinality({q \in DOMAIN output_queue : Holds(output_queue[q], c)})
    + (IF A[c] \in Garbage THEN 0 ELSE 1)

\* C1: with n >= n_threads > 1 the ranges put on the input queue are
\* pairwise disjoint and cover the columns 0 .. n-1 (at every moment each
\* column is in exactly one queued, taken, computed or written range); every
\* column the parent has written holds the activation computed for that very
\* input column, in the range it was queued in; and the returned matrix has
\* every column written, whatever the order of arrival of the results.
C1_RangesPartitionAndPlacement ==
    (Parallel /\ pc # "call") =>
        /\ JustDispatched => Partition(input_buffer)
        /\ \A c \in 0 .. (n - 1) : Places(c) = 1
        /\ \A c \in DOMAIN A :
               A[c] \notin Garbage =>
                   /\ A[c][2] = c
                   /\ Holds(<<A[c][3], A[c][4]>>, c)
                   /\ \E q \in DOMAIN QueuedRanges(n, n_threads) :
                          QueuedRanges(n, n_threads)[q] = <<A[c][3], A[c][4]>>
        /\ pc = "returned" =>
               /\ DOMAIN A = 0 .. (n - 1)
               /\ \A c \in DOMAIN A : A[c] \notin Garbage

\* C1 witness: the result of the last range was written before the result
\* of the first range arrived
C1_Witness_OutOfOrder ==
    /\ Parallel
    /\ pc = "collect"
    /\ A[0] \in Garbage
    /\ A[n - 1] \notin Garbage
    /\ A[n - 1][2] = n - 1

ParentBlockedForever ==
    /\ pc = "collect"
    /\ output_queue = <<>>
    /\ \A w \in DOMAIN wpc : wpc[w] \in {"done", "timeout", "failed"}

\* C2: once the encoder task of a worker has failed, the call neither
\* returns an activation matrix nor stays blocked for ever on the output
\* queue: it ends with an error.
C2_WorkerFailureIsReported ==
    (\E w \in DOMAIN wpc : wpc[w] = "failed") =>
        /\ pc # "returned"
        /\ ~ParentBlockedForever

\* python's floor division n / k for k > 0
Floor(a, b) == a \div b

Ceil(a, b) == (a + b - 1) \div b

Contiguous(ranges) ==
    /\ Len(ranges) > 0
    /\ ranges[1][1] = 0
    /\ ranges[Len(ranges)][2] = n
    /\ \A q \in 1 .. (Len(ranges) - 1) : ranges[q][2] = ranges[q + 1][1]

RangeSize(r) == r[2] - r[1]

\* C4 as stated: exactly n_threads contiguous ranges of near-equal size,
\* only a remainder range being smaller.
C4_ExactlyNumWorkersRanges ==
    (Parallel /\ JustDispatched) =>
        /\ Len(input_buffer) = n_threads
        /\ Contiguous(input_buffer)
        /\ \A q \in 1 .. (Len(input_buffer) - 1) :
               RangeSize(input_buffer[q]) = RangeSize(input_buffer[1])
        /\ RangeSize(input_buffer[Len(input_buffer)])
               <= RangeSize(input_buffer[1])

\* C4 amended: the n columns are split into ceil(n / B) contiguous ranges
\* with B = floor(n / n_threads): all of size B but the last, whose size is
\* in 1 .. B; there are at least n_threads ranges, and exactly n_threads
\* when n_threads divides n.
C4_RangesOfBlockSize ==
    (Parallel /\ JustDispatched) =>
        LET B == Floor(n, n_threads)
            last == input_buffer[Len(input_buffer)]
        IN  /\ B >= 1
            /\ Len(input_buffer) = Ceil(n, B)
            /\ Len(input_buffer) >= n_threads
            /\ Len(input_buffer) = n_threads <=> n % n_threads = 0
            /\ Contiguous(input_buffer)
            /\ \A q \in 1 .. (Len(input_buffer) - 1) :
                   RangeSize(input_buffer[q]) = B
            /\ 1 <= RangeSize(last) /\ RangeSize(last) <= B

\* C4 witness: a split into more ranges than workers, the last one smaller
C4_Witness_MoreRangesThanWorkers ==
    /\ Parallel
    /\ JustDispatched
    /\ Len(input_buffer) > n_threads
    /\ RangeSize(input_buffer[Len(input_buffer)]) < RangeSize(input_buffer[1])

\* the call is over
Ended == pc \in {"returned", "raised"}

\* one encoder ran inline, over all the columns, and the call returned its
\* result (or raised, as the encoder did); no worker process was started
RanInline ==
    /\ inline_runs = 1
    /\ wpc = <<>>
    /\ input_buffer = <<>> /\ input_queue = <<>> /\ output_queue = <<>>
    /\ IF poison = {}
       THEN /\ pc = "returned"
            /\ DOMAIN A = 0 .. (n - 1)
            /\ \A c \in DOMAIN A : A[c] = <<"a", c, 0, n>>
       ELSE pc = "raised"

\* C5 as stated: the inline encoder runs for every n_threads <= 1 and for
\* every n < n_threads.
C5_InlineForAtMostOneWorker ==
    ((n_threads <= 1 \/ n < n_threads) /\ pc # "call") => RanInline

\* C5 amended: the inline encoder runs for n_threads = 1 and for every
\* n < n_threads; for n_threads <= 0 no encoder runs at all and no worker is
\* started: the call raises for n_threads = 0 (division by zero) and for
\* n_threads < 0 with n = 0 (xrange step 0), and for n_threads < 0 with
\* n > 0 it returns the buffer of numpy.empty with no column written.
C5_InlineForOneWorkerOrFewSignals ==
    pc # "call" =>
        /\ (n_threads = 1 \/ n < n_threads) => RanInline
        /\ n_threads <= 0 =>
               /\ inline_runs = 0
               /\ wpc = <<>>
               /\ IF n_threads = 0 \/ n = 0
                  THEN pc = "raised"
                  ELSE /\ pc = "returned"
                       /\ DOMAIN A = 0 .. (n - 1)
                       /\ \A c \in DOMAIN A : A[c] \in Garbage

\* C5 witness: a call with fewer signals than workers that ran inline
C5_Witness_FewSignals ==
    /\ 0 < n /\ n < n_threads
    /\ pc = "returned"
    /\ inline_runs = 1

\* ------------------------------------------------------------------------
\* Properties of the ADMM solvers
\* ------------------------------------------------------------------------

\* the checkups at which both residuals were within their tolerances
\* (the primal residual below eps_primal, the dual one at most eps_dual)
Hits ==
    {q \in DOMAIN DIAG.samples :
        /\ DIAG.samples[q].err_primal < DIAG.samples[q].eps_primal
        /\ DIAG.samples[q].err_dual <= DIAG.samples[q].eps_dual}

\* the iteration (0-based) of the q-th checkup
CheckupIteration(q) == T_CHECKUP * (q - 1)

LastSample == DIAG'.samples[Len(DIAG'.samples)]

\* rho and the dual variable after an iteration, by the rule of C7
C7_Rule ==
    IF iters % T_CHECKUP = 0 /\ ~DIAG'.converged
    THEN IF /\ LastSample.err_primal > MU * LastSample.err_dual
            /\ ~Less(RHO_MAX, TimesTau(rho))
         THEN rho' = TimesTau(rho) /\ dual_exp' = dual_exp - 1
         ELSE IF /\ LastSample.err_dual > MU * LastSample.err_primal
                 /\ ~Less(OverTau(rho), RHO_MIN)
              THEN rho' = OverTau(rho) /\ dual_exp' = dual_exp + 1
              ELSE rho' = rho /\ dual_exp' = dual_exp
    ELSE rho' = rho /\ dual_exp' = dual_exp

\* C7: in both solvers rho and the scaling of the dual variable change only
\* at a checkup iteration that did not converge, and there by one rule:
\* primal residual > MU * dual residual and rho * TAU not above RHO_MAX
\* multiplies rho by TAU and divides the dual by TAU; else dual residual >
\* MU * primal residual and rho / TAU not below RHO_MIN divides rho by TAU
\* and multiplies the dual by TAU; otherwise, and at every other iteration,
\* rho and the dual scaling are unchanged.
C7_RhoChangesOnlyByTheRule ==
    [][IF iters' = iters + 1
       THEN C7_Rule
       ELSE rho' = rho /\ dual_exp' = dual_exp]_vars

\* C7 witness: a checkup with the primal residual above MU * the dual one
\* that left rho unchanged, rho * TAU being above RHO_MAX
C7_Witness_HeldAtRhoMax ==
    /\ Len(DIAG.samples) >= 2
    /\ LET q == Len(DIAG.samples)
       IN  /\ DIAG.samples[q - 1].err_primal > MU * DIAG.samples[q - 1].err_dual
           /\ DIAG.samples[q].rho = DIAG.samples[q - 1].rho
           /\ DIAG.samples[q].rho # RHO_INIT_A
           /\ DIAG.samples[q].rho # RHO_INIT_D
           /\ Less(RHO_MAX, TimesTau(DIAG.samples[q].rho))

\* C8: in both solvers every primal update uses a cached operator (Dinv,
\* SOLVER) that was built from the current value of rho, and the cache is
\* rebuilt only in an iteration that changed rho.
C8_CacheBuiltFromCurrentRho ==
    [][/\ primal' # <<>> => primal'.cache = primal'.rho
       /\ cache' # cache => rho' # rho]_vars

\* C8 witness: a primal update made after rho was changed twice
C8_Witness_UpdateAfterRescale ==
    /\ primal # <<>>
    /\ primal.rho.k = 2
    /\ cache.builds = 3
    /\ iters % T_CHECKUP = 2

\* ------------------------------------------------------------------------
\* Properties of learn_dictionary
\* ------------------------------------------------------------------------

\* the sum of entry e (1: StS, 2: StX) of the first k batches
RECURSIVE SumOf(_, _, _)
SumOf(hist, e, k) ==
    IF k = 0 THEN Frac(0, 1) ELSE FracAdd(SumOf(hist, e, k - 1), hist[k][e])

\* the mean of entry e over all the batches: weight 1 / T on every batch
MeanOf(hist, e) == FracMul(Frac(1, Len(hist)), SumOf(hist, e, Len(hist)))

\* C9: with the 1-based step index T and beta = 1, the running statistics
\* after step 1 are the statistics of the first batch, and after T steps StS
\* and StX are the combination of the T batch statistics that the recurrence
\* alpha * previous + (1 - alpha) * new with alpha = 1 - 1/T yields: weight
\* 1/T on every batch.
C9_RunningStatisticsAreTheMean ==
    /\ lpc \in {"loop", "returned"} => T = Len(batches)
    /\ Len(batches) = 1 =>
          /\ StS = batches[1][1]
          /\ StX = batches[1][2]
    /\ Len(batches) >= 1 =>
          /\ StS = MeanOf(batches, 1)
          /\ StX = MeanOf(batches, 2)

\* three steps were taken on three different batches
C9_Witness_ThreeBatches ==
    /\ lpc = "loop"
    /\ T = 3
    /\ batches[1] # batches[2]
    /\ batches[2] # batches[3]
    /\ batches[1] # batches[3]
    /\ ~IsNaN(StS)
    /\ ~IsNaN(StX)

\* C10: for every codeword count m >= 1 and every number of steps (zero
\* included), the dictionary held between the alternation steps and the
\* dictionary returned have exactly m codewords, each of unit l2 norm.
C10_DictionaryHasMUnitCodewords ==
    lpc \in {"loop", "returned"} =>
        /\ Len(D) = m
        /\ \A k \in DOMAIN D : D[k] = "unit"

\* ------------------------------------------------------------------------
\* Properties of the call with n_threads = 1 against the call with
\* n_threads > 1
\* ------------------------------------------------------------------------

\* the columns of range q of the second call are those of the first call
SameColumns(q) ==
    \A c \in parallel.ranges[q][1] .. (parallel.ranges[q][2] - 1) :
        parallel.A[c] = serial.A[c]

\* the solve of range q took the iterations of the whole-batch solve, with
\* the same rho in each
SameTrajectory(q) == parallel.rhos[q] = serial.rhos[1]

\* C3 (as stated): for identical X, D and a deterministic proximal
\* operator, parallel_encoder with n_threads = k > 1 returns the same
\* activation matrix as with n_threads = 1.
C3_ParallelEqualsSerial == epc = "done" => parallel.A = serial.A

\* C3 (amended): every column is written by the solve of its own range, and
\* the columns of a range equal those of the call with n_threads = 1 whenever
\* the solve of the range ran the same number of iterations with the same
\* rho in each iteration as the whole-batch solve (as it does when the call
\* punts to the inline encoder).
C3_EqualWhereTrajectoriesAgree ==
    epc = "done" =>
        /\ DOMAIN parallel.A = DOMAIN serial.A
        /\ \A c \in DOMAIN parallel.A : parallel.A[c] \in Int
        /\ \A q \in DOMAIN parallel.ranges : SameTrajectory(q) => SameColumns(q)

\* two workers: one range is solved along the trajectory of the whole batch
\* and returns the same columns, the other one rescales rho where the whole
\* batch does not and returns other columns
C3_Witness_OneRangeRescales ==
    /\ epc = "done"
    /\ Len(X) >= workers
    /\ \E q \in DOMAIN parallel.ranges :
          /\ SameTrajectory(q)
          /\ Len(parallel.rhos[q]) > 1
          /\ SameColumns(q)
    /\ \E q \in DOMAIN parallel.ranges :
          /\ ~SameTrajectory(q)
          /\ ~SameColumns(q)

\* ------------------------------------------------------------------------
\* Properties of the configuration of learn_dictionary
\* ------------------------------------------------------------------------

\* the regularizer is unknown, or reads width and height and has none
BadConfiguration ==
    \/ reg \notin {"l2_group", "l1", "l1_space", "lowpass"}
    \/ NeedsShape(reg) /\ ~has_shape

\* C11: learn_dictionary called with an unknown regularizer name, or with
\* 'l1_space' or 'lowpass' but without width and height, fails at call time
\* before any numeric work: the dictionary is never initialised and no
\* encode step is entered.
C11_BadConfigurationFailsAtCallTime ==
    BadConfiguration =>
        /\ lpc \in {"call", "raised"}
        /\ D = <<>>
        /\ T = 0

\* C12: if a dictionary update produces a codeword that is exactly zero, the
\* step ends in an error; the loop never continues into later steps, nor
\* returns, with a dictionary that holds a NaN or zero codeword.
C12_NoUndefinedCodeword ==
    lpc \in {"loop", "returned"} =>
        \A c \in DOMAIN D : D[c] \notin {"nan", "zero"}

\* ------------------------------------------------------------------------
\* Properties of the utility functions
\* ------------------------------------------------------------------------

\* Q is [A, -B ; B, A], the i-th d-by-d blocks of A and B the diagonals of
\* the real and imaginary halves of column i of D_
IsBlockDiagonalOf(Q, D_) ==
    LET d_ == D_.rows \div 2
        dm == d_ * D_.cols
    IN  /\ Q.rows = 2 * d_
        /\ Q.cols = 2 * dm
        /\ \A r \in 0 .. (d_ - 1), i \in 0 .. (D_.cols - 1), c \in 0 .. (d_ - 1) :
              LET re == IF c = r THEN D_.at[r][i] ELSE 0
                  im == IF c = r THEN D_.at[d_ + r][i] ELSE 0
              IN  /\ Q.at[r][i * d_ + c] = re
                  /\ Q.at[r][dm + i * d_ + c] = 0 - im
                  /\ Q.at[d_ + r][i * d_ + c] = im
                  /\ Q.at[d_ + r][dm + i * d_ + c] = re

\* C13: for every real-stacked 2d-by-m matrix D with d >= 1 and m >= 1,
\* columns_to_diags(D) is the 2d-by-2dm operator [[A, -B], [B, A]] of the
\* diagonals of the columns of D, and diags_to_columns of it equals D
\* element for element.
C13_DiagsRoundTrip ==
    /\ (called = "columns_to_diags" /\ upc \in {"inner", "done"}) =>
          IsBlockDiagonalOf(inner, given)
    /\ (called = "columns_to_diags" /\ upc = "done") => result = given

\* the round trip of a matrix of several codewords of size 2, with a
\* non-zero imaginary part
C13_Witness_TwoCodewords ==
    /\ called = "columns_to_diags"
    /\ upc = "done"
    /\ given.rows = 4
    /\ given.cols = 2
    /\ given.at[2][0] # 0
    /\ given.at[3][1] # 0
    /\ result = given

\* C14: real2_to_complex of an array with an odd number of rows always
\* fails with a shape error: for no odd row count, 1 included, does it
\* return a value.
C14_OddRowsAlwaysFail ==
    (called = "real2_to_complex" /\ upc # "call" /\ given.arr.rows % 2 = 1) =>
        upc = "raised"

\* an array of three rows is returned as two rows, the first row repeated
C14_ThreeRowsReturnTwo ==
    (called = "real2_to_complex" /\ upc # "call" /\ given.arr.rows = 3) =>
        /\ upc = "done"
        /\ result.arr.rows = 2
        /\ \A r \in {0, 1}, c \in 0 .. (given.arr.cols - 1) :
              result.arr.at[r][c] =
                  [re |-> given.arr.at[0][c], im |-> given.arr.at[1 + r][c]]

\* an array of one row is returned as an empty array
C14_OneRowReturnsEmpty ==
    (called = "real2_to_complex" /\ upc # "call" /\ given.arr.rows = 1) =>
        /\ upc = "done"
        /\ result.arr.rows = 0

\* an even number 2d of rows gives the d rows Y[:d] + 1.j * Y[d:], and
\* five rows or more of an odd number raise
C14_OtherRowCounts ==
    (called = "real2_to_complex" /\ upc # "call") =>
        LET rows == given.arr.rows
        IN  /\ rows % 2 = 0 =>
                  /\ upc = "done"
                  /\ result.arr.rows = rows \div 2
                  /\ \A r \in 0 .. (rows \div 2 - 1), c \in 0 .. (given.arr.cols - 1) :
                        result.arr.at[r][c] =
                            [re |-> given.arr.at[r][c],
                             im |-> given.arr.at[rows \div 2 + r][c]]
            /\ (rows % 2 = 1 /\ rows >= 5) => upc = "raised"

\* the square of the norm of codeword c of the 2d-by-m matrix M, over its
\* real and imaginary coordinates
NormSq(M, c) ==
    LET upto[r \in 0 .. M.rows] ==
            IF r = 0 THEN 0 ELSE upto[r - 1] + M.at[r - 1][c] * M.at[r - 1][c]
    IN  upto[M.rows]

\* C15: proj_l2_ball acts on each of the m codewords by itself: a codeword
\* of norm <= 1 is returned unchanged (every coordinate divided by exactly
\* 1), a codeword of norm > 1 has every coordinate divided by its own norm,
\* so that its output norm is 1, and every output codeword has norm <= 1.
C15_ProjectionPerCodeword ==
    (called = "proj_l2_ball" /\ upc = "done") =>
        LET out == vector_to_columns(result, given.cols)
        IN  /\ out.rows = given.rows
            /\ out.cols = given.cols
            /\ \A c \in 0 .. (given.cols - 1), r \in 0 .. (given.rows - 1) :
                  /\ out.at[r][c].num = given.at[r][c]
                  /\ NormSq(given, c) <= One * One =>
                        out.at[r][c].zsq = One * One
                  /\ NormSq(given, c) > One * One =>
                        out.at[r][c].zsq = NormSq(given, c)
                  /\ NormSq(given, c) <= out.at[r][c].zsq

\* a dictionary of two codewords of two coordinates each, the first one
\* inside the ball and the second one outside
C15_Witness_InsideAndOutside ==
    /\ called = "proj_l2_ball"
    /\ upc = "done"
    /\ given.rows = 4
    /\ given.cols = 2
    /\ NormSq(given, 0) > 0
    /\ NormSq(given, 0) < One * One
    /\ NormSq(given, 1) > One * One
    /\ result.at[0].zsq = One * One
    /\ result.at[2].zsq = NormSq(given, 1)

\* C16: in reg_l1_space with fft_pad, after the shrinkage every spatial
\* coefficient outside the top-left quadrant of the doubled height-by-width
\* patch is zero before the forward transform: for all (r, c) with
\* r >= height/2 or c >= width/2, for every codeword and signal.
C16_OutsideTopLeftIsZero ==
    (called = "reg_l1_space" /\ upc \in {"inner", "done"} /\ given.fft_pad) =>
        \A r \in 0 .. (inner.height - 1), c \in 0 .. (inner.width - 1),
           k_ \in 0 .. (inner.m - 1), j \in 0 .. (inner.n - 1) :
            (r >= inner.height \div 2 \/ c >= inner.width \div 2) =>
                inner.at[r][c][k_][j] = 0

\* what the code forces to zero is the bottom-right quadrant
C16_BottomRightIsZero ==
    (called = "reg_l1_space" /\ upc \in {"inner", "done"} /\ given.fft_pad) =>
        /\ inner.height = 2 * given.height
        /\ inner.width = 2 * given.width
        /\ \A r \in 0 .. (inner.height - 1), c \in 0 .. (inner.width - 1),
              k_ \in 0 .. (inner.m - 1), j \in 0 .. (inner.n - 1) :
               (r >= inner.height \div 2 /\ c >= inner.width \div 2) =>
                   inner.at[r][c][k_][j] = 0

\* C17: num_steps in the diagnostics returned by _encoder and dictionary is
\* the number of ADMM iterations executed in the solve, for every
\* max_iter >= 0, converged or not; a solve of 0 iterations and one of 1
\* iteration report different counts.
C17_NumStepsIsIterationCount ==
    apc = "done" => DIAG.num_steps = iters

\* num_steps is the index of the last iteration, and 0 when there was none
C17_NumStepsIsLastIndex ==
    apc = "done" =>
        DIAG.num_steps = (IF iters = 0 THEN 0 ELSE iters - 1)

\* C18: when no encoder task fails, every call of parallel_encoder with
\* n >= n_threads > 1 eventually returns under fair scheduling of the
\* workers and of the feeder of the input queue, for every interleaving of
\* the workers' empty()-then-get(timeout) polling with the delivery of the
\* queued items.
C18_ParallelCallReturns ==
    (poison = {} /\ n >= n_threads /\ n_threads > 1) => <>(pc = "returned")

\* a call on fewer columns than workers, or with one worker, eventually
\* returns or raises
C18_InlineCallEnds ==
    (poison = {} /\ (n_threads = 1 \/ n < n_threads)) =>
        <>(pc \in {"returned", "raised"})

\* the initial value of rho of the running solver
RhoInit == IF solver = "encoder" THEN RHO_INIT_A ELSE RHO_INIT_D

\* C19: in every reachable state of both ADMM solvers RHO_MIN < rho <
\* RHO_MAX and rho is the initial value of the solver (RHO_INIT_A or
\* RHO_INIT_D) times an integer power of TAU; and every rescaling of rho
\* leaves the product of rho and the dual variable unchanged (the dual
\* variable carries the opposite power of TAU).
C19_RhoWithinBounds ==
    solver \in {"encoder", "dictionary"} =>
        /\ Less(RHO_MIN, rho)
        /\ Less(rho, RHO_MAX)
        /\ rho.m = RhoInit.m
        /\ rho.x = RhoInit.x
        /\ rho.k + dual_exp = 0

\* rho has been raised as far as RHO_MAX allows: one more factor TAU would
\* pass the bound
C19_Witness_RhoAtItsLargest ==
    /\ solver \in {"encoder", "dictionary"}
    /\ rho.k > 0
    /\ dual_exp < 0
    /\ Less(rho, RHO_MAX)
    /\ ~Less(TimesTau(rho), RHO_MAX)

====
